---- MODULE Spec2Model ----
(***************************************************************************)
(* Model of quic/common/BufUtil.cpp: BufQueue (append, splitAtMost,        *)
(* trimStartAtMost, trimStart, move) over circular chains of folly::IOBuf. *)
(*                                                                         *)
(* An IOBuf header is a record [sid, off, len]: the storage it refers to,  *)
(* the offset of its data range inside that storage and its data-length.   *)
(* A chain is the sequence of its headers read from the entry node; the    *)
(* chain is circular, so next() of the last header is the first one.       *)
(* A null unique_ptr<IOBuf> is the empty sequence.                         *)
(* The byte stored at position p of storage s is the pair <<s, p>>, so     *)
(* every byte is distinct and any reordering or loss is visible.           *)
(*                                                                         *)
(* BufWriter and BufAppender have their own variables and specifications   *)
(* (SpecWriter, SpecAppender); there a segment is a record of the memory   *)
(* from its data start to the end of its capacity and its data-length.     *)
(***************************************************************************)
EXTENDS Integers, Sequences, FiniteSets, TLC

\* longest data-length of a freshly appended segment
MaxSegLen == 2
\* most segments in one appended chain
MaxChainSegs == 2
\* number of storages the environment allocates in one behaviour
MaxBufs == 2
\* most bytes the environment appends in one behaviour
MaxBytes == 3
\* largest len / amount argument passed to splitAtMost / trimStartAtMost / trimStart
MaxArg == 4
\* BufWriter: largest tail-room of the segment handed to the constructor
MaxRoom == 2
\* BufWriter: largest len / limit / destOffset argument
MaxWArg == 2
\* BufWriter: most calls on one writer
MaxWOps == 3
\* BufWriter: longest segment of a chain passed to copy
MaxSrcLen == 2
\* BufAppender: most push / insert calls of one run
MaxOps == 2
\* BufAppender: largest len of a push
MaxPushLen == 2
\* BufAppender: most segments of an inserted chain
MaxInsSegs == 2

VARIABLES
  chain_,        \* BufQueue::chain_  (<<>> is nullptr)
  chainLength_,  \* BufQueue::chainLength_
  nextSid,       \* next storage id the environment allocates
  allocated,     \* bytes the environment has appended so far
  op,            \* the operation that produced this state
  amount,        \* its numeric argument (len / amount)
  buf,           \* its chain argument (append)
  preChain,      \* chain_ before the operation
  preLength,     \* chainLength_ before the operation
  result,        \* chain returned by splitAtMost / move, held by the caller
  trimmed,       \* value returned by trimStartAtMost
  thrown,        \* TRUE iff the operation threw std::underflow_error
  orig,          \* queue before the split whose result was appended back
  walked         \* current = current->next() steps taken by the operation

VARIABLES
  iobuf_,        \* BufWriter::iobuf_ : [mem, cap, length]
  most_,         \* BufWriter::most_
  written_,      \* BufWriter::written_
  appendCount_,  \* BufWriter::appendCount_
  wfail,         \* "none", or the CHECK that aborted the process
  wop,           \* the BufWriter operation that produced this state
  warg,          \* its arguments
  wpre,          \* iobuf_, written_, appendCount_ before the operation
  wtot           \* calls, bytes appended and backfilled so far, pushes of the call

VARIABLES
  head_,           \* the chain BufAppender::head_ points into, from head_
  crtBuf_,         \* BufAppender::crtBuf_, as a position in that chain
  lastBufShared_,  \* BufAppender::lastBufShared_
  appendLen_,      \* BufAppender::appendLen_
  aop,             \* the BufAppender operation that produced this state
  aarg,            \* its arguments
  apre,            \* the appender before the operation
  aexpect,         \* initial bytes, then pushed and inserted bytes, in call order
  aops             \* push and insert calls so far

qvars == <<chain_, chainLength_, nextSid, allocated, op, amount, buf,
           preChain, preLength, result, trimmed, thrown, orig, walked>>

wvars == <<iobuf_, most_, written_, appendCount_, wfail, wop, warg, wpre,
           wtot>>

avars == <<head_, crtBuf_, lastBufShared_, appendLen_, aop, aarg, apre,
           aexpect, aops>>

vars == <<qvars, wvars, avars>>

Min(a, b) == IF a < b THEN a ELSE b
Max(a, b) == IF a < b THEN b ELSE a

NoOrig == [bytes |-> <<>>, length |-> 0, len |-> 0]

----------------------------------------------------------------------------
(* folly::IOBuf primitives used by BufUtil.cpp *)

\* IOBuf::create(0): one header, no data
create0 == << [sid |-> 0, off |-> 0, len |-> 0] >>

\* IOBuf::next() / prev() on a circular chain, by position from the entry
next(c, i) == (i % Len(c)) + 1
prev(c, i) == IF i = 1 THEN Len(c) ELSE i - 1

RECURSIVE computeChainDataLength(_)
computeChainDataLength(c) ==
  IF c = <<>> THEN 0 ELSE Head(c).len + computeChainDataLength(Tail(c))

\* IOBuf::empty(): every header of the chain has length 0
empty(c) == \A i \in 1..Len(c) : c[i].len = 0

\* IOBuf::cloneOne(): a new header over the same storage and data range
cloneOne(b) == [sid |-> b.sid, off |-> b.off, len |-> b.len]

IOBuf_trimEnd(b, n) == [b EXCEPT !.len = @ - n]
IOBuf_trimStart(b, n) == [b EXCEPT !.off = @ + n, !.len = @ - n]

\* this->prependChain(src): src is linked in just before the entry node,
\* i.e. after the last header reached from the entry
prependChain(dst, src) == dst \o src

\* this->appendToChain(src): src is linked in right after the entry node
IOBuf_appendToChain(dst, src) == <<Head(dst)>> \o src \o Tail(dst)

\* re-enter a circular chain at entry->next()
enterAtNext(c) == Tail(c) \o <<Head(c)>>

\* separateChain(head, tail) with head the entry node and tail the header at
\* position t: the excised chain, and what stays linked (entered at t+1)
separateChain(c, t) ==
  [sep |-> SubSeq(c, 1, t), rest |-> SubSeq(c, t + 1, Len(c))]

\* bytes a header exposes, and bytes of a chain in traversal order
SegBytes(b) == [i \in 1..b.len |-> <<b.sid, b.off + i - 1>>]

RECURSIVE Bytes(_)
Bytes(c) == IF c = <<>> THEN <<>> ELSE SegBytes(Head(c)) \o Bytes(Tail(c))

----------------------------------------------------------------------------
(* BufQueue *)

\* BufQueue::move(): detach the whole chain
move(chain, chainLength) ==
  [chain_ |-> <<>>, chainLength_ |-> 0, result |-> chain]

appendToChain_swapped(dst, src) ==
  IF dst = <<>> THEN src ELSE prependChain(src, dst)

appendToChain(dst, src) ==
  IF dst = <<>> THEN src ELSE prependChain(dst, src)

append_headLength(chain, chainLength, b) ==
  IF b = <<>> \/ empty(b)
    THEN [chain_ |-> chain, chainLength_ |-> chainLength]
    ELSE [chain_ |-> appendToChain(chain, b),
          chainLength_ |-> chainLength + Head(b).len]

append(chain, chainLength, b) ==
  IF b = <<>> \/ empty(b)
    THEN [chain_ |-> chain, chainLength_ |-> chainLength]
    ELSE [chain_ |-> appendToChain(chain, b),
          chainLength_ |-> chainLength + computeChainDataLength(b)]

\* the while loop of splitAtMost: position and remaining len when it exits
RECURSIVE splitWalk_ge(_, _, _)
splitWalk_ge(c, cur, len) ==
  IF len # 0 /\ ~(c[cur].len >= len)
    THEN LET r == splitWalk_ge(c, next(c, cur), len - c[cur].len)
         IN  [cur |-> r.cur, len |-> r.len, steps |-> r.steps + 1]
    ELSE [cur |-> cur, len |-> len, steps |-> 0]

RECURSIVE splitWalk(_, _, _)
splitWalk(c, cur, len) ==
  IF len # 0 /\ ~(c[cur].len > len)
    THEN LET r == splitWalk(c, next(c, cur), len - c[cur].len)
         IN  [cur |-> r.cur, len |-> r.len, steps |-> r.steps + 1]
    ELSE [cur |-> cur, len |-> len, steps |-> 0]

splitExact_throughCurrent(c, cur) ==
  LET s == separateChain(c, cur)
  IN  [result |-> s.sep, chain_ |-> s.rest]

\* len == 0 branch: excise head .. current->prev(), keep the rest
splitExact(c, cur) ==
  LET s == separateChain(c, cur - 1)
  IN  [result |-> s.sep, chain_ |-> s.rest]

splitMid_noRotate(c, cur, len) ==
  LET clone   == IOBuf_trimEnd(cloneOne(c[cur]), c[cur].len - len)
      current == IOBuf_trimStart(c[cur], len)
      c2      == [c EXCEPT ![cur] = current]
  IN  IF cur # 1
        THEN LET s == separateChain(c2, cur - 1)
             IN  [result |-> IOBuf_appendToChain(<<clone>>, s.sep),
                  chain_ |-> s.rest]
        ELSE [result |-> <<clone>>, chain_ |-> c2]

\* else branch: clone the straddling header, trim both, move prior headers
splitMid(c, cur, len) ==
  LET clone   == IOBuf_trimEnd(cloneOne(c[cur]), c[cur].len - len)
      current == IOBuf_trimStart(c[cur], len)
      c2      == [c EXCEPT ![cur] = current]
  IN  IF cur # 1
        THEN LET s == separateChain(c2, cur - 1)
             IN  [result |-> enterAtNext(IOBuf_appendToChain(<<clone>>, s.sep)),
                  chain_ |-> s.rest]
        ELSE [result |-> <<clone>>, chain_ |-> c2]

splitAtMost_keepLength(chain, chainLength, len) ==
  IF chain = <<>> \/ len = 0
    THEN [chain_ |-> chain, chainLength_ |-> chainLength, result |-> create0,
          walked |-> 0]
  ELSE IF len >= chainLength
    THEN LET m == move(chain, chainLength)
         IN  [chain_ |-> m.chain_, chainLength_ |-> m.chainLength_,
              result |-> m.result, walked |-> 0]
  ELSE LET w == splitWalk(chain, 1, len)
           r == IF w.len = 0 THEN splitExact(chain, w.cur)
                             ELSE splitMid(chain, w.cur, w.len)
       IN  [chain_ |-> r.chain_, chainLength_ |-> chainLength,
            result |-> r.result, walked |-> w.steps]

splitAtMost_gt(chain, chainLength, len) ==
  IF chain = <<>> \/ len = 0
    THEN [chain_ |-> chain, chainLength_ |-> chainLength, result |-> create0,
          walked |-> 0]
  ELSE IF len > chainLength
    THEN LET m == move(chain, chainLength)
         IN  [chain_ |-> m.chain_, chainLength_ |-> m.chainLength_,
              result |-> m.result, walked |-> 0]
  ELSE LET w == splitWalk(chain, 1, len)
           r == IF w.len = 0 THEN splitExact(chain, w.cur)
                             ELSE splitMid(chain, w.cur, w.len)
       IN  [chain_ |-> r.chain_, chainLength_ |-> chainLength - len,
            result |-> r.result, walked |-> w.steps]

splitAtMost(chain, chainLength, len) ==
  IF chain = <<>> \/ len = 0
    THEN [chain_ |-> chain, chainLength_ |-> chainLength, result |-> create0,
          walked |-> 0]
  ELSE IF len >= chainLength
    THEN LET m == move(chain, chainLength)
         IN  [chain_ |-> m.chain_, chainLength_ |-> m.chainLength_,
              result |-> m.result, walked |-> 0]
  ELSE LET w == splitWalk(chain, 1, len)
           r == IF w.len = 0 THEN splitExact(chain, w.cur)
                             ELSE splitMid(chain, w.cur, w.len)
       IN  [chain_ |-> r.chain_, chainLength_ |-> chainLength - len,
            result |-> r.result, walked |-> w.steps]

\* the while loop of trimStartAtMost: the chain (one header possibly
\* trimmed), the position reached and the amount still to trim
RECURSIVE trimWalk_gt(_, _, _)
trimWalk_gt(c, cur, amt) ==
  IF amt > 0
    THEN IF c[cur].len > amt
           THEN [c |-> [c EXCEPT ![cur] = IOBuf_trimStart(@, amt)],
                 cur |-> cur, amount |-> 0, steps |-> 0]
           ELSE IF next(c, cur) = 1
                  THEN [c |-> c, cur |-> 1, amount |-> amt - c[cur].len,
                        steps |-> 1]
                  ELSE LET r == trimWalk_gt(c, next(c, cur), amt - c[cur].len)
                       IN  [c |-> r.c, cur |-> r.cur, amount |-> r.amount,
                            steps |-> r.steps + 1]
    ELSE [c |-> c, cur |-> cur, amount |-> amt, steps |-> 0]

RECURSIVE trimWalk(_, _, _)
trimWalk(c, cur, amt) ==
  IF amt > 0
    THEN IF c[cur].len >= amt
           THEN [c |-> [c EXCEPT ![cur] = IOBuf_trimStart(@, amt)],
                 cur |-> cur, amount |-> 0, steps |-> 0]
           ELSE IF next(c, cur) = 1
                  THEN [c |-> c, cur |-> 1, amount |-> amt - c[cur].len,
                        steps |-> 1]
                  ELSE LET r == trimWalk(c, next(c, cur), amt - c[cur].len)
                       IN  [c |-> r.c, cur |-> r.cur, amount |-> r.amount,
                            steps |-> r.steps + 1]
    ELSE [c |-> c, cur |-> cur, amount |-> amt, steps |-> 0]

trimStartAtMost_keepChain(chain, chainLength, amt) ==
  IF chain = <<>> \/ amt = 0
    THEN [chain_ |-> chain, chainLength_ |-> chainLength, trimmed |-> 0,
          walked |-> 0]
  ELSE LET w == trimWalk(chain, 1, amt)
           p == prev(w.c, w.cur)
           newChain ==
             IF p # w.cur /\ w.cur # 1
               THEN separateChain(w.c, p).rest
             ELSE IF w.amount > 0
               THEN w.c
             ELSE w.c
           t == amt - w.amount
       IN  [chain_ |-> newChain, chainLength_ |-> chainLength - t,
            trimmed |-> t, walked |-> w.steps]

trimStartAtMost(chain, chainLength, amt) ==
  IF chain = <<>> \/ amt = 0
    THEN [chain_ |-> chain, chainLength_ |-> chainLength, trimmed |-> 0,
          walked |-> 0]
  ELSE LET w == trimWalk(chain, 1, amt)
           p == prev(w.c, w.cur)
           newChain ==
             IF p # w.cur /\ w.cur # 1
               THEN separateChain(w.c, p).rest
             ELSE IF w.amount > 0
               THEN <<>>
             ELSE w.c
           t == amt - w.amount
       IN  [chain_ |-> newChain, chainLength_ |-> chainLength - t,
            trimmed |-> t, walked |-> w.steps]

trimStart_neverThrows(chain, chainLength, amt) ==
  LET r == trimStartAtMost(chain, chainLength, amt)
  IN  [chain_ |-> r.chain_, chainLength_ |-> r.chainLength_,
       trimmed |-> r.trimmed, walked |-> r.walked,
       thrown |-> r.trimmed > amt]

trimStart(chain, chainLength, amt) ==
  LET r == trimStartAtMost(chain, chainLength, amt)
  IN  [chain_ |-> r.chain_, chainLength_ |-> r.chainLength_,
       trimmed |-> r.trimmed, walked |-> r.walked,
       thrown |-> r.trimmed # amt]

----------------------------------------------------------------------------
(* BufWriter *)

\* a byte of memory nobody has written yet
Uninit == <<"?">>

\* IOBuf::tailroom(): capacity left behind the data
tailroom(b) == b.cap - b.length

\* IOBuf::append(n): the data range grows over the next n bytes behind it.
\* Within the tail-room these are bytes of the buffer.  Beyond it (undefined,
\* and only in a build without DCHECKs) the range takes in the memory behind
\* the buffer, whose bytes are unknown until something writes them.
IOBuf_append(b, n) ==
  [b EXCEPT !.length = @ + n,
            !.mem = IF b.length + n > Len(@)
                      THEN @ \o [i \in 1..(b.length + n - Len(@)) |-> Uninit]
                      ELSE @]

\* memcpy(b.writableData() + at, data, Len(data)), inside the memory the
\* segment records: its buffer and what the data range took in behind it
memcpy(b, at, data) ==
  [b EXCEPT !.mem = [i \in 1..Len(b.mem) |->
                       IF at < i /\ i <= at + Len(data)
                         THEN data[i - at] ELSE b.mem[i]]]

\* bytes the segment exposes
Data(b) == SubSeq(b.mem, 1, b.length)

\* BufWriter::sizeCheck: the write fits the budget
sizeCheck(w, len) == w.written + len <= w.most

BufWriter_push_noCount(w, data) ==
  IF ~sizeCheck(w, Len(data))
    THEN [w EXCEPT !.fail = "CapacityExceeded"]
    ELSE [w EXCEPT !.iobuf = IOBuf_append(memcpy(w.iobuf, w.iobuf.length, data),
                                          Len(data)),
                   !.pushes = @ + 1]

BufWriter_push_alsoAppendCount(w, data) ==
  IF ~sizeCheck(w, Len(data))
    THEN [w EXCEPT !.fail = "CapacityExceeded"]
    ELSE [w EXCEPT !.iobuf = IOBuf_append(memcpy(w.iobuf, w.iobuf.length, data),
                                          Len(data)),
                   !.written = @ + Len(data),
                   !.appendCount = @ + Len(data),
                   !.pushes = @ + 1]

BufWriter_push(w, data) ==
  IF ~sizeCheck(w, Len(data))
    THEN [w EXCEPT !.fail = "CapacityExceeded"]
    ELSE [w EXCEPT !.iobuf = IOBuf_append(memcpy(w.iobuf, w.iobuf.length, data),
                                          Len(data)),
                   !.written = @ + Len(data),
                   !.pushes = @ + 1]

\* append(len) checks nothing itself.  IOBuf::append(len) beyond the
\* tail-room is undefined: a build with DCHECKs (dcheck) aborts there, a
\* build without them stretches the data range past the capacity.  A data
\* range already past the capacity exists only in a build without DCHECKs.
BufWriter_append(w, len, dcheck) ==
  IF dcheck /\ w.iobuf.length <= w.iobuf.cap /\ len > tailroom(w.iobuf)
    THEN [w EXCEPT !.fail = "DCHECK"]
    ELSE [w EXCEPT !.iobuf = IOBuf_append(w.iobuf, len),
                   !.written = @ + len,
                   !.appendCount = @ + len]

\* the do-while loop of copy; cur is the position of curBuf in the chain
RECURSIVE copyLoop(_, _, _, _, _)
copyLoop(w, data, cur, remaining, totalInserted) ==
  LET lenToCopy == Min(Len(data[cur]), remaining)
      w1        == BufWriter_push(w, SubSeq(data[cur], 1, lenToCopy))
      rem1      == remaining - lenToCopy
      tot1      == totalInserted + lenToCopy
  IN  IF w1.fail # "none"
        THEN [w |-> w1, totalInserted |-> totalInserted]
      ELSE IF lenToCopy < Len(data[cur])
        THEN [w |-> w1, totalInserted |-> tot1]
      ELSE IF rem1 # 0 /\ next(data, cur) # 1
        THEN copyLoop(w1, data, next(data, cur), rem1, tot1)
      ELSE [w |-> w1, totalInserted |-> tot1]

copy_noLimit(w, data, limit) ==
  IF limit = 0 THEN w
  ELSE IF ~sizeCheck(w, limit)
    THEN [w EXCEPT !.fail = "CapacityExceeded"]
  ELSE LET r == copyLoop(w, data, 1, limit + 1, 0)
       IN  IF r.w.fail = "none" /\ ~(limit >= r.totalInserted)
             THEN [r.w EXCEPT !.fail = "ContractViolation"]
             ELSE r.w

copy(w, data, limit) ==
  IF limit = 0 THEN w
  ELSE IF ~sizeCheck(w, limit)
    THEN [w EXCEPT !.fail = "CapacityExceeded"]
  ELSE LET r == copyLoop(w, data, 1, limit, 0)
       IN  IF r.w.fail = "none" /\ ~(limit >= r.totalInserted)
             THEN [r.w EXCEPT !.fail = "ContractViolation"]
             ELSE r.w

RECURSIVE ChainBytes(_)
ChainBytes(data) ==
  IF data = <<>> THEN <<>> ELSE Head(data) \o ChainBytes(Tail(data))

\* insert(data): copy with limit = data->computeChainDataLength()
BufWriter_insert(w, data) == copy(w, data, Len(ChainBytes(data)))

\* After an append beyond the tail-room the data-length exceeds the
\* capacity, and a range that passes both CHECKs can end behind the buffer.
\* memcpy then writes outside the buffer (undefined): the build either stops
\* the process there (crash) or stores the bytes in the memory behind it.
backFill(w, data, destOffset, crash) ==
  IF ~(w.appendCount >= Len(data))
    THEN [w EXCEPT !.fail = "ContractViolation"]
  ELSE LET w1 == [w EXCEPT !.appendCount = @ - Len(data)]
       IN  IF ~(destOffset + Len(data) <= w1.iobuf.length)
             THEN [w1 EXCEPT !.fail = "ContractViolation"]
           ELSE IF /\ crash
                   /\ Len(data) > 0
                   /\ destOffset + Len(data) > w1.iobuf.cap
             THEN [w1 EXCEPT !.fail = "MemoryFault"]
           ELSE [w1 EXCEPT !.iobuf = memcpy(w1.iobuf, destOffset, data)]

----------------------------------------------------------------------------
(* BufAppender *)

\* IOBuf::isShared(): some segment of the chain shares its storage
isShared(c) == \E i \in 1..Len(c) : c[i].shared

\* IOBuf::createCombined(capacity): one unshared segment without data
createCombined(capacity) ==
  [mem |-> [i \in 1..capacity |-> Uninit], cap |-> capacity, length |-> 0,
   shared |-> FALSE]

\* bytes of an appender chain in traversal order from head_
RECURSIVE ABytes(_)
ABytes(c) == IF c = <<>> THEN <<>> ELSE Data(Head(c)) \o ABytes(Tail(c))

\* memcpy(crtBuf_->writableTail(), data, len); crtBuf_->append(len)
writeTail(b, data) == IOBuf_append(memcpy(b, b.length, data), Len(data))

\* slack: capacity createCombined hands out beyond the capacity asked for
BufAppender_push_ignoreShared(a, data, slack) ==
  LET len    == Len(data)
      grow   == tailroom(a.head[a.crtBuf]) < len
      newBuf == createCombined(Max(a.appendLen, len) + slack)
      head1  == IF grow THEN prependChain(a.head, <<newBuf>>) ELSE a.head
      crt1   == IF grow THEN Len(head1) ELSE a.crtBuf
  IN  [a EXCEPT !.head = [head1 EXCEPT ![crt1] = writeTail(head1[crt1], data)],
                !.crtBuf = crt1,
                !.lastBufShared = FALSE]

BufAppender_push(a, data, slack) ==
  LET len    == Len(data)
      grow   == tailroom(a.head[a.crtBuf]) < len \/ a.lastBufShared
      newBuf == createCombined(Max(a.appendLen, len) + slack)
      head1  == IF grow THEN prependChain(a.head, <<newBuf>>) ELSE a.head
      crt1   == IF grow THEN Len(head1) ELSE a.crtBuf
  IN  [a EXCEPT !.head = [head1 EXCEPT ![crt1] = writeTail(head1[crt1], data)],
                !.crtBuf = crt1,
                !.lastBufShared = FALSE]

\* dataPtr is the entry segment of data, at position Len(head) + 1 once linked
BufAppender_insert(a, data) ==
  [a EXCEPT !.head = prependChain(a.head, data),
            !.crtBuf = Len(a.head) + 1,
            !.lastBufShared = isShared(data)]

----------------------------------------------------------------------------
(* Environment: the chains a caller appends *)

FreshSeg(sid, l) == [sid |-> sid, off |-> 0, len |-> l]

FreshChains(ns) ==
  UNION { { [i \in 1..k |-> FreshSeg(ns + i - 1, ls[i])] :
              ls \in [1..k -> 0..MaxSegLen] } : k \in 1..MaxChainSegs }

QueueInit ==
  /\ chain_ = <<>>
  /\ chainLength_ = 0
  /\ nextSid = 1
  /\ allocated = 0
  /\ op = "init"
  /\ amount = 0
  /\ buf = <<>>
  /\ preChain = <<>>
  /\ preLength = 0
  /\ result = <<>>
  /\ trimmed = 0
  /\ thrown = FALSE
  /\ orig = NoOrig
  /\ walked = 0

\* queue.append(std::move(b)) with b null or a freshly built chain
AppendChain ==
  \E b \in {<<>>} \cup FreshChains(nextSid) :
    /\ nextSid + Len(b) - 1 <= MaxBufs
    /\ allocated + computeChainDataLength(b) <= MaxBytes
    /\ LET r == append(chain_, chainLength_, b)
       IN  /\ chain_' = r.chain_
           /\ chainLength_' = r.chainLength_
           /\ nextSid' = IF r.chain_ = chain_ THEN nextSid ELSE nextSid + Len(b)
           /\ allocated' = IF r.chain_ = chain_
                            THEN allocated
                            ELSE allocated + computeChainDataLength(b)
    /\ op' = "append"
    /\ UNCHANGED <<wvars, avars>>
    /\ walked' = 0
    /\ buf' = b
    /\ preChain' = chain_
    /\ preLength' = chainLength_
    /\ amount' = 0
    /\ result' = <<>>
    /\ trimmed' = 0
    /\ thrown' = FALSE
    /\ orig' = NoOrig

\* queue.append(queue.splitAtMost(len)): the chain just split off goes back
AppendBack ==
  /\ op = "splitAtMost"
  /\ LET r == append(chain_, chainLength_, result)
     IN  /\ chain_' = r.chain_
         /\ chainLength_' = r.chainLength_
  /\ op' = "appendBack"
  /\ walked' = 0
  /\ buf' = result
  /\ preChain' = chain_
  /\ preLength' = chainLength_
  /\ orig' = [bytes |-> Bytes(preChain), length |-> preLength, len |-> amount]
  /\ amount' = 0
  /\ result' = <<>>
  /\ trimmed' = 0
  /\ thrown' = FALSE
  /\ UNCHANGED <<nextSid, allocated, wvars, avars>>

SplitAtMost ==
  \E len \in 0..MaxArg :
    /\ LET r == splitAtMost(chain_, chainLength_, len)
       IN  /\ chain_' = r.chain_
           /\ chainLength_' = r.chainLength_
           /\ result' = r.result
           /\ walked' = r.walked
    /\ op' = "splitAtMost"
    /\ amount' = len
    /\ buf' = <<>>
    /\ preChain' = chain_
    /\ preLength' = chainLength_
    /\ trimmed' = 0
    /\ thrown' = FALSE
    /\ orig' = NoOrig
    /\ UNCHANGED <<nextSid, allocated, wvars, avars>>

TrimStartAtMost ==
  \E amt \in 0..MaxArg :
    /\ LET r == trimStartAtMost(chain_, chainLength_, amt)
       IN  /\ chain_' = r.chain_
           /\ chainLength_' = r.chainLength_
           /\ trimmed' = r.trimmed
           /\ walked' = r.walked
    /\ op' = "trimStartAtMost"
    /\ amount' = amt
    /\ buf' = <<>>
    /\ preChain' = chain_
    /\ preLength' = chainLength_
    /\ result' = <<>>
    /\ thrown' = FALSE
    /\ orig' = NoOrig
    /\ UNCHANGED <<nextSid, allocated, wvars, avars>>

TrimStart ==
  \E amt \in 0..MaxArg :
    /\ LET r == trimStart(chain_, chainLength_, amt)
       IN  /\ chain_' = r.chain_
           /\ chainLength_' = r.chainLength_
           /\ trimmed' = r.trimmed
           /\ thrown' = r.thrown
           /\ walked' = r.walked
    /\ op' = "trimStart"
    /\ amount' = amt
    /\ buf' = <<>>
    /\ preChain' = chain_
    /\ preLength' = chainLength_
    /\ result' = <<>>
    /\ orig' = NoOrig
    /\ UNCHANGED <<nextSid, allocated, wvars, avars>>

Move ==
  /\ LET r == move(chain_, chainLength_)
     IN  /\ chain_' = r.chain_
         /\ chainLength_' = r.chainLength_
         /\ result' = r.result
  /\ op' = "move"
  /\ walked' = 0
  /\ amount' = 0
  /\ buf' = <<>>
  /\ preChain' = chain_
  /\ preLength' = chainLength_
  /\ trimmed' = 0
  /\ thrown' = FALSE
  /\ orig' = NoOrig
  /\ UNCHANGED <<nextSid, allocated, wvars, avars>>

\* BufWriter: construction

NoArg == [len |-> 0, data |-> <<>>, off |-> 0, chain |-> <<>>]

\* the segment a caller hands to the constructor is empty or holds a byte
InitLens == {0, 1}

\* a segment with l bytes of data and t bytes of tail-room

FreshIOBuf(l, t) ==
  [mem |-> [i \in 1..(l + t) |-> IF i <= l THEN <<"i", i>> ELSE Uninit],
   cap |-> l + t, length |-> l]

PushData(len) == [j \in 1..len |-> <<"p", j>>]
FillData(len) == [j \in 1..len |-> <<"f", j>>]

\* segments of a chain passed to copy / insert
SrcSegs == {1, 2}

SrcChains ==
  UNION { { [i \in 1..k |-> [j \in 1..ls[i] |-> <<"s", i, j>>]] :
              ls \in [1..k -> 0..MaxSrcLen] } : k \in SrcSegs }

\* the writer as one record, for the operators above
Writer ==
  [iobuf |-> iobuf_, most |-> most_, written |-> written_,
   appendCount |-> appendCount_, fail |-> wfail, pushes |-> 0]

WriterPre ==
  [iobuf |-> iobuf_, written |-> written_, appendCount |-> appendCount_]

WriterIdle ==
  /\ iobuf_ = FreshIOBuf(0, 0)
  /\ most_ = 0
  /\ written_ = 0
  /\ appendCount_ = 0
  /\ wfail = "none"
  /\ wop = "idle"
  /\ warg = NoArg
  /\ wpre = [iobuf |-> FreshIOBuf(0, 0), written |-> 0, appendCount |-> 0]
  /\ wtot = [appended |-> 0, backfilled |-> 0, pushes |-> 0, len0 |-> 0,
             ops |-> 0]

\* BufWriter(iobuf, most): the constructor's CHECK passed
WriterInit ==
  \E l \in InitLens, t \in 0..MaxRoom, m \in 0..MaxRoom :
    /\ t >= m
    /\ iobuf_ = FreshIOBuf(l, t)
    /\ most_ = m
    /\ written_ = 0
    /\ appendCount_ = 0
    /\ wfail = "none"
    /\ wop = "init"
    /\ warg = NoArg
    /\ wpre = [iobuf |-> FreshIOBuf(l, t), written |-> 0, appendCount |-> 0]
    /\ wtot = [appended |-> 0, backfilled |-> 0, pushes |-> 0, len0 |-> l,
               ops |-> 0]

----------------------------------------------------------------------------
\* BufAppender: construction

\* tail-room of the segments a caller supplies, appendLen arguments,
\* segments of the chain handed to the constructor, allocator slack
TailRooms == {0, 1}
AppendLens == {1, 2}
InitSegs == {1, 2}
Slack == {0, 1}

\* a segment holding the bytes of data, with t bytes of tail-room
ASeg(data, t, sh) ==
  [mem |-> [i \in 1..(Len(data) + t) |->
              IF i <= Len(data) THEN data[i] ELSE Uninit],
   cap |-> Len(data) + t, length |-> Len(data), shared |-> sh]

\* the chain handed to the constructor: the head holds 0 or 1 bytes and has
\* tail-room t, every further segment holds one byte
InitChain(k, l, t) ==
  [i \in 1..k |-> IF i = 1 THEN ASeg([j \in 1..l |-> <<"i", 1>>], t, FALSE)
                           ELSE ASeg(<< <<"i", i>> >>, 0, FALSE)]

\* the data of the n-th call when it is a push
APushData(n, len) == [j \in 1..len |-> <<"p", n, j>>]

\* the chain of the n-th call when it is an insert: k segments of one byte,
\* the entry with tail-room t, segment s (if any) sharing its storage
InsChain(n, k, t, s) ==
  [i \in 1..k |-> ASeg(<< <<"s", n, i>> >>, IF i = 1 THEN t ELSE 0, i = s)]

NoAArg == [data |-> <<>>, chain |-> <<>>]

Appender ==
  [head |-> head_, crtBuf |-> crtBuf_, lastBufShared |-> lastBufShared_,
   appendLen |-> appendLen_]

\* the appender on entry, and whether the call before was an insert of a
\* chain with a shared segment
AppenderPre ==
  [head |-> head_, crtBuf |-> crtBuf_,
   afterSharedInsert |-> (aop = "insert" /\ isShared(aarg.chain))]

AppenderIdle ==
  /\ head_ = <<createCombined(0)>>
  /\ crtBuf_ = 1
  /\ lastBufShared_ = FALSE
  /\ appendLen_ = 0
  /\ aop = "idle"
  /\ aarg = NoAArg
  /\ apre = [head |-> <<createCombined(0)>>, crtBuf |-> 1,
             afterSharedInsert |-> FALSE]
  /\ aexpect = <<>>
  /\ aops = 0

\* the member initializer of lastBufShared_ in BufUtil.h
lastBufSharedDefault == FALSE

\* BufAppender(data, appendLen)
AppenderInit ==
  \E k \in InitSegs, l \in InitLens, t \in TailRooms, g \in AppendLens :
    /\ head_ = InitChain(k, l, t)
    /\ crtBuf_ = 1
    /\ lastBufShared_ = lastBufSharedDefault
    /\ appendLen_ = g
    /\ aop = "init"
    /\ aarg = NoAArg
    /\ apre = [head |-> InitChain(k, l, t), crtBuf |-> 1,
               afterSharedInsert |-> FALSE]
    /\ aexpect = ABytes(InitChain(k, l, t))
    /\ aops = 0

Init == QueueInit /\ WriterIdle /\ AppenderIdle

Next ==
  \/ AppendChain
  \/ AppendBack
  \/ SplitAtMost
  \/ TrimStartAtMost
  \/ TrimStart
  \/ Move

Spec == Init /\ [][Next]_vars

----------------------------------------------------------------------------
(* BufWriter operations *)

\* the writer state after an operation that returned record w
WriterStep(w) ==
  /\ wtot.ops < MaxWOps
  /\ iobuf_' = w.iobuf
  /\ written_' = w.written
  /\ appendCount_' = w.appendCount
  /\ wfail' = w.fail
  /\ wpre' = WriterPre
  /\ UNCHANGED <<most_, qvars, avars>>

WPush ==
  \E len \in 0..MaxWArg :
    LET w == BufWriter_push(Writer, PushData(len))
    IN  /\ wfail = "none"
        /\ WriterStep(w)
        /\ wop' = "push"
        /\ warg' = [NoArg EXCEPT !.len = len, !.data = PushData(len)]
        /\ wtot' = [wtot EXCEPT !.ops = @ + 1, !.pushes = w.pushes]

\* append(len) takes any len
WAppend ==
  \E len \in 0..MaxWArg, dcheck \in BOOLEAN :
    LET w == BufWriter_append(Writer, len, dcheck)
    IN  /\ wfail = "none"
        /\ WriterStep(w)
        /\ wop' = "append"
        /\ warg' = [NoArg EXCEPT !.len = len]
        /\ wtot' = [wtot EXCEPT !.ops = @ + 1, !.pushes = 0, !.appended =
                      IF w.fail = "none" THEN @ + len ELSE @]

WInsert ==
  \E data \in SrcChains :
    LET w == BufWriter_insert(Writer, data)
    IN  /\ wfail = "none"
        /\ WriterStep(w)
        /\ wop' = "insert"
        /\ warg' = [NoArg EXCEPT !.len = Len(ChainBytes(data)), !.chain = data]
        /\ wtot' = [wtot EXCEPT !.ops = @ + 1, !.pushes = w.pushes]

WCopy ==
  \E data \in SrcChains, limit \in 0..MaxWArg :
    LET w == copy(Writer, data, limit)
    IN  /\ wfail = "none"
        /\ WriterStep(w)
        /\ wop' = "copy"
        /\ warg' = [NoArg EXCEPT !.len = limit, !.chain = data]
        /\ wtot' = [wtot EXCEPT !.ops = @ + 1, !.pushes = w.pushes]

WBackFill ==
  \E len \in 0..MaxWArg, destOffset \in 0..MaxWArg, crash \in BOOLEAN :
    LET w == backFill(Writer, FillData(len), destOffset, crash)
    IN  /\ wfail = "none"
        /\ WriterStep(w)
        /\ wop' = "backFill"
        /\ warg' = [NoArg EXCEPT !.len = len, !.data = FillData(len),
                                 !.off = destOffset]
        /\ wtot' = [wtot EXCEPT !.ops = @ + 1, !.pushes = 0, !.backfilled =
                      IF w.fail = "none" THEN @ + len ELSE @]

InitWriter == QueueInit /\ WriterInit /\ AppenderIdle

NextWriter ==
  \/ WPush
  \/ WAppend
  \/ WInsert
  \/ WCopy
  \/ WBackFill

SpecWriter == InitWriter /\ [][NextWriter]_vars

----------------------------------------------------------------------------
(* BufAppender operations *)

\* the appender state after an operation that returned record a
AppenderStep(a) ==
  /\ aops < MaxOps
  /\ head_' = a.head
  /\ crtBuf_' = a.crtBuf
  /\ lastBufShared_' = a.lastBufShared
  /\ apre' = AppenderPre
  /\ aops' = aops + 1
  /\ UNCHANGED <<appendLen_, qvars, wvars>>

APush ==
  \E len \in 0..MaxPushLen, slack \in Slack :
    LET data == APushData(aops + 1, len)
    IN  /\ AppenderStep(BufAppender_push(Appender, data, slack))
        /\ aop' = "push"
        /\ aarg' = [NoAArg EXCEPT !.data = data]
        /\ aexpect' = aexpect \o data

AInsert ==
  \E k \in 1..MaxInsSegs, t \in TailRooms :
    \E s \in {0, 1, k} :
      LET data == InsChain(aops + 1, k, t, s)
      IN  /\ AppenderStep(BufAppender_insert(Appender, data))
          /\ aop' = "insert"
          /\ aarg' = [NoAArg EXCEPT !.chain = data]
          /\ aexpect' = aexpect \o ABytes(data)

InitAppender == QueueInit /\ WriterIdle /\ AppenderInit

NextAppender ==
  \/ APush
  \/ AInsert

SpecAppender == InitAppender /\ [][NextAppender]_vars

----------------------------------------------------------------------------
(* Properties *)

\* the split point k falls on a segment boundary of chain c
Boundary(c, k) ==
  \E j \in 0..Len(c) : computeChainDataLength(SubSeq(c, 1, j)) = k

\* number of headers of chain c that refer to storage s
ShareCount(c, s) == Cardinality({i \in 1..Len(c) : c[i].sid = s})

Sids(c) == {c[i].sid : i \in 1..Len(c)}

\* C1: the cached chainLength_ always equals the sum of the data-lengths of
\* the segments of the owned chain, and is 0 when no chain is owned.
C1_LengthInvariant == chainLength_ = computeChainDataLength(chain_)

C1_Witness ==
  /\ op = "trimStartAtMost"
  /\ trimmed > 0
  /\ Len(chain_) >= 2
  /\ chainLength_ > 0

\* C2: after append, splitAtMost, trimStartAtMost and move, chainLength_ is 0
\* exactly when no chain is owned, and a chain still owned after
\* trimStartAtMost holds at least one byte.
C2_EmptyIffNoChain ==
  op \in {"init", "append", "splitAtMost", "trimStartAtMost", "move"} =>
    /\ (chainLength_ = 0) <=> (chain_ = <<>>)
    /\ (op = "trimStartAtMost" /\ chain_ # <<>>) => ~empty(chain_)

\* C3: splitAtMost(len) returns a non-null chain of exactly
\* min(len, chainLength_) bytes and the queue shrinks by that amount; the chain
\* is zero-length when len = 0 or the queue is empty, and it is the whole
\* content, leaving the queue empty, when len >= chainLength_.
C3_SplitConservation ==
  op = "splitAtMost" =>
    LET n == Min(amount, preLength)
    IN  /\ result # <<>>
        /\ computeChainDataLength(result) = n
        /\ Len(Bytes(result)) = n
        /\ chainLength_ = preLength - n
        /\ computeChainDataLength(result) + computeChainDataLength(chain_)
             = computeChainDataLength(preChain)
        /\ (amount = 0 \/ preLength = 0) => empty(result)
        /\ amount >= preLength =>
             /\ Bytes(result) = Bytes(preChain)
             /\ chainLength_ = 0
             /\ Bytes(chain_) = <<>>
             /\ (amount > 0 /\ preChain # <<>>) =>
                  (result = preChain /\ chain_ = <<>>)

C3_Witness ==
  /\ op = "splitAtMost"
  /\ preLength > 0
  /\ amount >= preLength
  /\ Len(result) >= 2

\* C4: for 0 < len < |S|, splitAtMost(len) returns exactly the first len
\* bytes of S in order and leaves exactly the remaining bytes of S in order,
\* on a segment boundary and inside a segment alike.
C4_SplitBytes ==
  (op = "splitAtMost" /\ 0 < amount /\ amount < preLength) =>
    LET S == Bytes(preChain)
    IN  /\ Bytes(result) = SubSeq(S, 1, amount)
        /\ Bytes(chain_) = SubSeq(S, amount + 1, Len(S))

C4_Witness ==
  /\ op = "splitAtMost"
  /\ 0 < amount
  /\ amount < preLength
  /\ ~Boundary(preChain, amount)
  /\ Len(result) >= 2

\* C5 as stated: appending the chain returned by splitAtMost(len) back onto
\* the queue restores the original byte sequence and the original length.
C5_SplitAppendRestores ==
  op = "appendBack" =>
    /\ Bytes(chain_) = orig.bytes
    /\ chainLength_ = orig.length

\* C5 amended: appending the chain returned by splitAtMost(len) back onto the
\* queue restores the original length, and the queue then carries the bytes
\* that stayed followed by the bytes that were split off (the original
\* sequence rotated left by min(len, length)); this is the original sequence
\* when len = 0 or len >= length.
C5_SplitAppendRotates ==
  op = "appendBack" =>
    LET n == Min(orig.len, orig.length)
    IN  /\ chainLength_ = orig.length
        /\ Bytes(chain_) = SubSeq(orig.bytes, n + 1, orig.length)
                             \o SubSeq(orig.bytes, 1, n)
        /\ (orig.len = 0 \/ orig.len >= orig.length) =>
             Bytes(chain_) = orig.bytes

C5_Witness ==
  /\ op = "appendBack"
  /\ 0 < orig.len
  /\ orig.len < orig.length
  /\ Len(buf) >= 2
  /\ Bytes(chain_) # orig.bytes

\* C6: on a non-empty queue, trimStartAtMost(amount) with
\* amount >= chainLength_ returns the prior length and leaves the queue with
\* chainLength_ 0 and no owned chain.
C6_TrimSaturation ==
  (op = "trimStartAtMost" /\ preLength > 0 /\ amount >= preLength) =>
    /\ trimmed = preLength
    /\ chainLength_ = 0
    /\ chain_ = <<>>

\* C7: trimStartAtMost(amount) returns min(amount, |S|), decreases
\* chainLength_ by the returned value and leaves S without its first
\* min(amount, |S|) bytes, in order.
C7_TrimBytes ==
  op = "trimStartAtMost" =>
    LET S == Bytes(preChain)
        n == Min(amount, Len(S))
    IN  /\ trimmed = n
        /\ chainLength_ = preLength - trimmed
        /\ Bytes(chain_) = SubSeq(S, n + 1, Len(S))

C7_Witness ==
  /\ op = "trimStartAtMost"
  /\ Len(preChain) >= 2
  /\ trimmed > computeChainDataLength(SubSeq(preChain, 1, 1))
  /\ trimmed < preLength
  /\ ~Boundary(preChain, trimmed)
  /\ chain_ # <<>>

\* C8: trimStart(amount) throws the underflow error iff the queue held fewer
\* than amount bytes; otherwise it discards exactly amount bytes from the
\* front.
C8_TrimStartUnderflow ==
  op = "trimStart" =>
    LET S == Bytes(preChain)
    IN  /\ thrown <=> (Len(S) < amount)
        /\ Len(S) >= amount =>
             /\ ~thrown
             /\ chainLength_ = preLength - amount
             /\ Bytes(chain_) = SubSeq(S, amount + 1, Len(S))

C8_Witness ==
  /\ op = "trimStart"
  /\ thrown
  /\ preLength > 0
  /\ Len(preChain) >= 2

\* C9: splitAtMost(len) with 0 < len < chainLength_ clones nothing when the
\* split point is a segment boundary (the headers are only relinked), and
\* clones exactly the straddling segment otherwise; the clone ending the
\* result and the queue's new head then share storage and expose disjoint,
\* adjacent, non-empty ranges.
C9_SplitSharing ==
  (op = "splitAtMost" /\ 0 < amount /\ amount < preLength) =>
    IF Boundary(preChain, amount)
      THEN /\ result \o chain_ = preChain
           /\ \A s \in Sids(preChain) :
                ShareCount(result \o chain_, s) = ShareCount(preChain, s)
      ELSE LET k    == Len(result)
               last == result[k]
               head == chain_[1]
           IN  /\ Len(result) + Len(chain_) = Len(preChain) + 1
               /\ SubSeq(result, 1, k - 1) = SubSeq(preChain, 1, k - 1)
               /\ Tail(chain_) = SubSeq(preChain, k + 1, Len(preChain))
               /\ last.sid = head.sid
               /\ last.sid = preChain[k].sid
               /\ last.off = preChain[k].off
               /\ last.off + last.len = head.off
               /\ last.len > 0
               /\ head.len > 0
               /\ last.len + head.len = preChain[k].len
               /\ \A s \in Sids(preChain) :
                    ShareCount(result \o chain_, s) =
                      ShareCount(preChain, s) + (IF s = head.sid THEN 1 ELSE 0)

C9_Witness ==
  /\ op = "splitAtMost"
  /\ 0 < amount
  /\ amount < preLength
  /\ Boundary(preChain, amount)
  /\ Len(preChain) >= 3
  /\ Len(result) >= 2

\* C10: append(chain) changes nothing when chain is null or carries no
\* bytes; otherwise chainLength_ grows by the chain's byte length, the new
\* bytes follow all previously queued bytes, and the chain is adopted as the
\* owned chain when none existed.
C10_Append ==
  op \in {"append", "appendBack"} =>
    IF buf = <<>> \/ computeChainDataLength(buf) = 0
      THEN chain_ = preChain /\ chainLength_ = preLength
      ELSE /\ chainLength_ = preLength + computeChainDataLength(buf)
           /\ Bytes(chain_) = Bytes(preChain) \o Bytes(buf)
           /\ chain_ = preChain \o buf
           /\ preChain = <<>> => chain_ = buf

C10_Witness ==
  /\ op = "append"
  /\ preChain # <<>>
  /\ preLength > 0
  /\ buf # <<>>
  /\ ~empty(buf)

\* C19: the segment walks visit each segment at most once.  In splitAtMost
\* the walk never returns to the head, so on an exact boundary the stopping
\* segment is not the head and the queue keeps a non-empty remainder; in
\* trimStartAtMost the walk stops at the segment that absorbs the remaining
\* amount or on the first return to the entry segment, zero-length segments
\* included.
C19_WalksTerminate ==
  /\ (op = "splitAtMost" /\ preChain # <<>>) =>
       /\ walked < Len(preChain)
       /\ (0 < amount /\ amount < preLength /\ Boundary(preChain, amount)) =>
            /\ walked >= 1
            /\ chain_ = SubSeq(preChain, walked + 1, Len(preChain))
            /\ ~empty(chain_)
            /\ chainLength_ > 0
  /\ (op \in {"trimStartAtMost", "trimStart"} /\ preChain # <<>>) =>
       /\ walked <= Len(preChain)
       /\ walked < Len(preChain) =>
            /\ trimmed = amount
            /\ amount > 0 =>
                 preChain[walked + 1].len >=
                   amount - computeChainDataLength(SubSeq(preChain, 1, walked))
       /\ walked = Len(preChain) =>
            /\ trimmed = computeChainDataLength(preChain)
            /\ trimmed < amount

C19_Witness ==
  /\ op = "splitAtMost"
  /\ 0 < amount
  /\ amount < preLength
  /\ Boundary(preChain, amount)
  /\ \E i \in 1..Len(preChain) : preChain[i].len = 0
  /\ walked >= 1
  /\ walked = Len(preChain) - 2

\* C20: when trimStart throws the underflow error the queue has already been
\* emptied: it owns no chain, chainLength_ is 0, and whatever it held is gone.
C20_UnderflowEmptiesQueue ==
  (op = "trimStart" /\ thrown) =>
    /\ chain_ = <<>>
    /\ chainLength_ = 0
    /\ trimmed = preLength
    /\ preChain # <<>> => chain_ # preChain

C20_Witness ==
  /\ op = "trimStart"
  /\ thrown
  /\ preLength > 0
  /\ Len(preChain) >= 2
  /\ amount > preLength

----------------------------------------------------------------------------
(* Properties of BufWriter, checked under SpecWriter *)

\* C11: push(bytes, len) fails with CapacityExceeded exactly when
\* written + len > most and then writes nothing; otherwise the len bytes are
\* appended at the segment's tail and the data-length and written both
\* advance by len.
C11_PushBudget ==
  wop = "push" =>
    /\ (wfail = "CapacityExceeded") <=> (wpre.written + warg.len > most_)
    /\ wfail \in {"none", "CapacityExceeded"}
    /\ wfail # "none" =>
         /\ iobuf_ = wpre.iobuf
         /\ written_ = wpre.written
    /\ wfail = "none" =>
         /\ Data(iobuf_) = Data(wpre.iobuf) \o warg.data
         /\ iobuf_.length = wpre.iobuf.length + warg.len
         /\ iobuf_.length <= iobuf_.cap
         /\ written_ = wpre.written + warg.len

C11_Witness ==
  /\ wop = "push"
  /\ wfail = "CapacityExceeded"
  /\ wpre.written > 0
  /\ wpre.written <= most_
  /\ wpre.appendCount = 0
  /\ warg.len > 0

\* C12: append(len) fails with CapacityExceeded when written + len > most
\* instead of advancing, so written <= most always and the data-length never
\* passes its length at construction plus most.
C12_AppendBudget ==
  /\ (wop = "append" /\ wpre.written + warg.len > most_) =>
       /\ wfail = "CapacityExceeded"
       /\ written_ = wpre.written
       /\ iobuf_ = wpre.iobuf
  /\ written_ <= most_
  /\ iobuf_.length <= wtot.len0 + most_

\* C13: backFill(bytes, len, destOffset) succeeds only if len <= appendCount
\* and destOffset + len <= data-length, and aborts otherwise; on success
\* appendCount drops by len, exactly the bytes at [destOffset, destOffset+len)
\* are overwritten, written and the data-length stay.  The bytes backfilled
\* never exceed the bytes added by append(len).
C13_BackFill ==
  /\ wtot.backfilled <= wtot.appended
  /\ appendCount_ >= 0
  /\ wop = "backFill" =>
       LET ok == wfail = "none"
       IN  /\ ok <=> (/\ warg.len <= wpre.appendCount
                      /\ warg.off + warg.len <= wpre.iobuf.length)
           /\ ~ok => wfail = "ContractViolation"
           /\ written_ = wpre.written
           /\ iobuf_.length = wpre.iobuf.length
           /\ ok =>
                /\ appendCount_ = wpre.appendCount - warg.len
                /\ Len(iobuf_.mem) = Len(wpre.iobuf.mem)
                /\ \A i \in 1..Len(iobuf_.mem) :
                     iobuf_.mem[i] =
                       IF warg.off < i /\ i <= warg.off + warg.len
                         THEN warg.data[i - warg.off]
                         ELSE wpre.iobuf.mem[i]

\* C14 as stated: a successful push(bytes, len) advances appendCount by len,
\* as it advances written by len.
C14_PushAdvancesAppendCount ==
  (wop = "push" /\ wfail = "none") =>
    /\ written_ = wpre.written + warg.len
    /\ appendCount_ = wpre.appendCount + warg.len

\* C14 amended: a successful push(bytes, len) advances written by len and
\* leaves appendCount unchanged; only append(len) advances appendCount.
C14_PushKeepsAppendCount ==
  /\ (wop = "push" /\ wfail = "none") =>
       /\ written_ = wpre.written + warg.len
       /\ appendCount_ = wpre.appendCount
  /\ (wop = "append" /\ wfail = "none") =>
       appendCount_ = wpre.appendCount + warg.len

C14_Witness ==
  /\ wop = "push"
  /\ wfail = "none"
  /\ warg.len > 0
  /\ wpre.appendCount > 0

\* C15: copy(chain, limit), and insert(chain) with limit the chain's length,
\* does nothing when limit = 0; for limit > 0 it fails the capacity check
\* exactly when written + limit > most, before any byte is copied; otherwise
\* it appends the first min(limit, chain length) bytes of the chain in
\* order, with at most one push per source segment, none of which fails, and
\* advances written by that number.
C15_Copy ==
  wop \in {"copy", "insert"} =>
    LET limit == warg.len
        src   == ChainBytes(warg.chain)
        n     == Min(limit, Len(src))
    IN  /\ wop = "insert" => limit = Len(src)
        /\ limit = 0 =>
             /\ wfail = "none"
             /\ iobuf_ = wpre.iobuf
             /\ written_ = wpre.written
             /\ wtot.pushes = 0
        /\ limit > 0 =>
             /\ (wfail # "none") <=> (wpre.written + limit > most_)
             /\ wfail # "none" =>
                  /\ wfail = "CapacityExceeded"
                  /\ iobuf_ = wpre.iobuf
                  /\ written_ = wpre.written
                  /\ wtot.pushes = 0
             /\ wfail = "none" =>
                  /\ Data(iobuf_) = Data(wpre.iobuf) \o SubSeq(src, 1, n)
                  /\ iobuf_.length = wpre.iobuf.length + n
                  /\ written_ = wpre.written + n
                  /\ appendCount_ = wpre.appendCount
                  /\ wtot.pushes >= 1
                  /\ wtot.pushes <= Len(warg.chain)

C15_Witness ==
  /\ wop = "copy"
  /\ wfail = "none"
  /\ Len(warg.chain) = 2
  /\ wtot.pushes = 2
  /\ written_ = wpre.written + 2
  /\ wpre.written = 0
  /\ Len(ChainBytes(warg.chain)) > warg.len

----------------------------------------------------------------------------
(* BufAppender properties *)

\* the condition under which the last push had to take a new segment
APushGrew ==
  \/ tailroom(apre.head[apre.crtBuf]) < Len(aarg.data)
  \/ apre.afterSharedInsert

\* C16: push allocates a segment of capacity at least max(appendLen_, len),
\* links it at the end of the chain and makes it crtBuf_ exactly when the
\* tail-room of crtBuf_ is below len or the call before was an insert of a
\* shared chain; it then writes the len bytes at the tail of crtBuf_ and
\* clears lastBufShared_.  The written segment's data stays within its
\* capacity, and after an insert of a shared chain every segment that was
\* in the chain keeps its bytes.
C16_PushAllocates ==
  aop = "push" =>
    LET len == Len(aarg.data)
        n   == Len(apre.head)
    IN  /\ lastBufShared_ = FALSE
        /\ head_[crtBuf_].length <= head_[crtBuf_].cap
        /\ IF APushGrew
             THEN /\ Len(head_) = n + 1
                  /\ crtBuf_ = n + 1
                  /\ SubSeq(head_, 1, n) = apre.head
                  /\ head_[crtBuf_].cap >= Max(appendLen_, len)
                  /\ ~head_[crtBuf_].shared
                  /\ Data(head_[crtBuf_]) = aarg.data
             ELSE /\ Len(head_) = n
                  /\ crtBuf_ = apre.crtBuf
                  /\ \A i \in 1..n : i # crtBuf_ => head_[i] = apre.head[i]
                  /\ Data(head_[crtBuf_]) =
                       Data(apre.head[crtBuf_]) \o aarg.data
        /\ apre.afterSharedInsert =>
             /\ crtBuf_ > n
             /\ SubSeq(head_, 1, n) = apre.head

\* a push of at least one byte right after an insert of a shared chain whose
\* entry segment had the tail-room for it
C16_Witness ==
  /\ aop = "push"
  /\ apre.afterSharedInsert
  /\ Len(aarg.data) >= 1
  /\ tailroom(apre.head[apre.crtBuf]) >= Len(aarg.data)
  /\ crtBuf_ = Len(apre.head) + 1

\* C17: after insert(chain) the inserted segments sit at the end of the
\* managed chain, untouched, and crtBuf_ is the last segment of the
\* inserted chain.
C17_InsertTail ==
  aop = "insert" =>
    /\ head_ = apre.head \o aarg.chain
    /\ crtBuf_ = Len(head_)

\* C18: the bytes of the managed chain read from head_ are the bytes of the
\* initial chain followed by the pushed and inserted bytes in call order.
C18_BytesInCallOrder ==
  aop \in {"init", "push", "insert"} => ABytes(head_) = aexpect


====
